---- MODULE Spec2Model ----
(***************************************************************************)
(* Stand Up Sydney FastMCP server: the tool handlers of src/server.py and  *)
(* src/server_fixed.py, the module-level TOOL_CONFIGS they read, and the   *)
(* comedian booking workflow.                                              *)
(*                                                                         *)
(* Python values: a dict is a TLA+ record (the empty dict the empty        *)
(* function), a list a sequence, an f-string the sequence of its parts.    *)
(* None is NoneStr where the other values are strings and None where the   *)
(* other values are dicts.                                                 *)
(***************************************************************************)
EXTENDS Integers, Sequences, FiniteSets, TLC

\* ------------------------------------------------------------------ bounds

\* datetime.now() reads a clock that advances from 0 up to MaxTime.
MaxTime == 1

\* The history of health_check keeps the tools_enabled of the last MaxHealthLog
\* calls.
MaxHealthLog == 2

\* ------------------------------------------------------------ Python values

NoneStr == "<None>"
None == [py |-> "None"]
EmptyDict == [k \in {} |-> ""]

\* bool(s) of an Optional[str].
bool_str(s) == s \notin {NoneStr, ""}

\* bool(d) of an Optional[dict].
bool_dict(d) == d \notin {None, EmptyDict}

\* `d or {}` of an Optional[dict].
or_empty(d) == IF bool_dict(d) THEN d ELSE EmptyDict

\* dict.get(key) with a str value: None when the key is absent.
dict_get(d, key) == IF key \in DOMAIN d THEN d[key] ELSE NoneStr

\* ------------------------------------------------------------- environment

Variants == {"server", "server_fixed"}

EnvKeys ==
  {"SUPABASE_URL", "SUPABASE_ANON_KEY", "GITHUB_TOKEN", "NOTION_TOKEN",
   "METRICOOL_API_KEY", "PORT", "HOST"}

\* A variable of the process environment is unset, set to the empty string
\* or set to a non-empty string. The three cases are explored on the supabase
\* pair; a token, PORT and HOST are unset or set to a non-empty string.
EnvValues(key) ==
  CASE key \in {"SUPABASE_URL", "SUPABASE_ANON_KEY"} -> {NoneStr, "", "v"}
    [] key = "PORT" -> {NoneStr, "9000"}
    [] key = "HOST" -> {NoneStr, "127.0.0.1"}
    [] OTHER -> {NoneStr, "v"}

Environments ==
  {e \in [EnvKeys -> UNION {EnvValues(key) : key \in EnvKeys}] :
     \A key \in EnvKeys : e[key] \in EnvValues(key)}

\* The environments explored for each file. server.py reads PORT and HOST in
\* main only, to bind the transport, and no handler of it sees them: they are
\* explored for server_fixed.py, whose server_diagnostics returns them.
StartEnvironments(v) ==
  IF v = "server"
  THEN {e \in Environments : e["PORT"] = NoneStr /\ e["HOST"] = NoneStr}
  ELSE Environments

\* os.getenv(key) and os.getenv(key, default).
getenv(e, key) == e[key]
getenv_default(e, key, default) == IF e[key] = NoneStr THEN default ELSE e[key]

\* The name of the browser integration in each file.
BrowserName(v) == IF v = "server" THEN "browser" ELSE "playwright"

BrowserDescription(v) ==
  IF v = "server"
  THEN "Web automation for data scraping and testing"
  ELSE "Playwright browser automation for testing and web scraping"

\* The insertion order of TOOL_CONFIGS, which dict iteration follows.
ConfigOrder(v) ==
  <<"supabase", "github", "notion", "metricool", BrowserName(v), "filesystem">>

\* bool(os.getenv("SUPABASE_URL")): the `enabled` of the supabase entry.
supabase_enabled(e) == bool_str(getenv(e, "SUPABASE_URL"))

\* TOOL_CONFIGS as the module body builds it from the environment.
BuildToolConfigs(v, e) ==
  [name \in {ConfigOrder(v)[i] : i \in 1..Len(ConfigOrder(v))} |->
     CASE name = "supabase" ->
            [url |-> getenv_default(e, "SUPABASE_URL", ""),
             key |-> getenv_default(e, "SUPABASE_ANON_KEY", ""),
             enabled |-> supabase_enabled(e),
             description |-> "Backend API operations for Stand Up Sydney database"]
       [] name = "github" ->
            [token |-> getenv_default(e, "GITHUB_TOKEN", ""),
             enabled |-> bool_str(getenv(e, "GITHUB_TOKEN")),
             description |-> "Version control and deployment tracking"]
       [] name = "notion" ->
            [token |-> getenv_default(e, "NOTION_TOKEN", ""),
             enabled |-> bool_str(getenv(e, "NOTION_TOKEN")),
             description |-> "Project logging, tasks, and documentation"]
       [] name = "metricool" ->
            [api_key |-> getenv_default(e, "METRICOOL_API_KEY", ""),
             enabled |-> bool_str(getenv(e, "METRICOOL_API_KEY")),
             description |-> "Social media promotion and analytics"]
       [] name = BrowserName(v) ->
            [enabled |-> TRUE, description |-> BrowserDescription(v)]
       [] name = "filesystem" ->
            [enabled |-> TRUE,
             description |-> "File operations for content management"]]

\* ------------------------------------------------------------------- state

Callers == {"a", "b"}

VARIABLES
  variant,         \* which file is the running server
  env,             \* the process environment
  TOOL_CONFIGS,    \* the module-level configuration dict
  startup_enabled, \* history: name -> enabled, as built at import
  now,             \* the clock datetime.now() reads
  pc,              \* per caller: "idle", or the position in the workflow
  call,            \* per caller: the tool invoked last and its arguments
  result,          \* per caller: what that invocation returned
  trace,           \* per caller: function entries and log lines of that invocation
  workflow_steps,  \* per caller: the workflow's local list
  health_log       \* history: the tools_enabled of the last health_check calls

vars ==
  <<variant, env, TOOL_CONFIGS, startup_enabled, now, pc, call, result, trace,
    workflow_steps, health_log>>

NoCall == [tool |-> "<none>"]
NoResult == [py |-> "<no result>"]

Init ==
  /\ variant \in Variants
  /\ env \in StartEnvironments(variant)
  /\ TOOL_CONFIGS = BuildToolConfigs(variant, env)
  /\ startup_enabled =
       [name \in DOMAIN BuildToolConfigs(variant, env) |->
          BuildToolConfigs(variant, env)[name].enabled]
  /\ now = 0
  /\ pc = [c \in Callers |-> "idle"]
  /\ call = [c \in Callers |-> NoCall]
  /\ result = [c \in Callers |-> NoResult]
  /\ trace = [c \in Callers |-> <<>>]
  /\ workflow_steps = [c \in Callers |-> <<>>]
  /\ health_log = <<>>

\* ------------------------------------------------------ what a handler does

\* A handler's outcome: the value it returns and what it did on the way, the
\* entry of every tool function and every logger.info line, in order.
Entered(fn) == [ev |-> "call", fn |-> fn]
Logged(fn, msg) == [ev |-> "log", fn |-> fn, msg |-> msg]
Outcome(ret, tr) == [ret |-> ret, trace |-> tr]

\* SERVER_CONFIG; deployed_at is datetime.now() at import, when the clock is 0.
SERVER_CONFIG ==
  [name |-> "Stand Up Sydney FastMCP",
   version |-> IF variant = "server" THEN "1.0.0" ELSE "1.1.0",
   host |-> IF variant = "server" THEN "170.64.252.55" ELSE "170.64.129.59",
   port |-> 8080,
   deployed_at |-> 0,
   platform |-> "comedy_booking_automation"]

\* Mutant of enabled_tools: only the integrations that hold a secret or an
\* endpoint are listed.
enabled_tools_with_secrets ==
  LET IsEnabled(name) ==
        /\ TOOL_CONFIGS[name].enabled
        /\ DOMAIN TOOL_CONFIGS[name] # {"enabled", "description"}
  IN  SelectSeq(ConfigOrder(variant), IsEnabled)

\* [name for name, config in TOOL_CONFIGS.items() if config["enabled"]]
enabled_tools ==
  LET IsEnabled(name) == TOOL_CONFIGS[name].enabled
  IN  SelectSeq(ConfigOrder(variant), IsEnabled)

health_check ==
  LET base ==
        [status |-> "healthy",
         server |-> SERVER_CONFIG,
         tools_enabled |-> enabled_tools,
         tools_count |-> Len(enabled_tools),
         timestamp |-> now]
      ret ==
        IF variant = "server"
        THEN [status |-> base.status, server |-> base.server,
              tools_enabled |-> base.tools_enabled,
              tools_count |-> base.tools_count, timestamp |-> base.timestamp,
              deployment |-> "droplet_170.64.252.55"]
        ELSE [status |-> base.status, server |-> base.server,
              tools_enabled |-> base.tools_enabled,
              tools_count |-> base.tools_count, timestamp |-> base.timestamp,
              deployment |-> "droplet_170.64.129.59",
              python_version |-> "sys.version",
              environment_vars |->
                [SUPABASE_URL |-> bool_str(getenv(env, "SUPABASE_URL")),
                 GITHUB_TOKEN |-> bool_str(getenv(env, "GITHUB_TOKEN")),
                 NOTION_TOKEN |-> bool_str(getenv(env, "NOTION_TOKEN")),
                 METRICOOL_API_KEY |-> bool_str(getenv(env, "METRICOOL_API_KEY"))]]
  IN  Outcome(ret, <<Entered("health_check")>>)

\* bool(config.get("token") or config.get("api_key") or config.get("url")
\*      or config["enabled"])
configured(config) ==
  \/ bool_str(dict_get(config, "token"))
  \/ bool_str(dict_get(config, "api_key"))
  \/ bool_str(dict_get(config, "url"))
  \/ config.enabled

\* Mutant of list_tools: enabled_tools counts every entry.
list_tools_counts_all ==
  LET tools_status ==
        [name \in DOMAIN TOOL_CONFIGS |->
           [enabled |-> TOOL_CONFIGS[name].enabled,
            description |-> TOOL_CONFIGS[name].description,
            configured |-> configured(TOOL_CONFIGS[name])]]
  IN  Outcome([tools |-> tools_status,
               total_tools |-> Cardinality(DOMAIN TOOL_CONFIGS),
               enabled_tools |->
                 Cardinality(DOMAIN TOOL_CONFIGS),
               server_config |-> SERVER_CONFIG],
              <<Entered("list_tools")>>)

list_tools ==
  LET tools_status ==
        [name \in DOMAIN TOOL_CONFIGS |->
           [enabled |-> TOOL_CONFIGS[name].enabled,
            description |-> TOOL_CONFIGS[name].description,
            configured |-> configured(TOOL_CONFIGS[name])]]
  IN  Outcome([tools |-> tools_status,
               total_tools |-> Cardinality(DOMAIN TOOL_CONFIGS),
               enabled_tools |->
                 Cardinality({name \in DOMAIN TOOL_CONFIGS :
                                TOOL_CONFIGS[name].enabled}),
               server_config |-> SERVER_CONFIG],
              <<Entered("list_tools")>>)

\* server_fixed.py only. What the host reports (platform, importable modules,
\* the file system) is outside the program and kept opaque.
server_diagnostics ==
  Outcome([platform_info |-> "platform",
           module_status |-> "modules",
           environment_variables |->
             [PORT |-> getenv_default(env, "PORT", "8080"),
              HOST |-> getenv_default(env, "HOST", "0.0.0.0"),
              SUPABASE_URL_SET |-> bool_str(getenv(env, "SUPABASE_URL")),
              GITHUB_TOKEN_SET |-> bool_str(getenv(env, "GITHUB_TOKEN"))],
           file_system |-> "files",
           timestamp |-> now],
          <<Entered("server_diagnostics")>>)

supabase_query(table, operation, filters, data) ==
  IF ~TOOL_CONFIGS["supabase"].enabled
  THEN Outcome([error |->
                  "Supabase tool not enabled - check SUPABASE_URL and SUPABASE_ANON_KEY"],
               <<Entered("supabase_query")>>)
  ELSE Outcome([operation |-> operation,
                table |-> table,
                filters |-> or_empty(filters),
                data |-> or_empty(data),
                status |-> "ready_for_implementation",
                message |->
                  <<"FastMCP ready to execute ", operation, " on ", table, " table">>,
                timestamp |-> now],
               <<Entered("supabase_query"),
                 Logged("supabase_query",
                        <<"Supabase operation: ", operation, " on ", table>>)>>)

\* Mutant of comedian_operation: "list" is not recognised as a select.
comedian_operation_get_only(action) ==
  IF action = "get" THEN "select"
  ELSE IF action = "create" THEN "insert"
  ELSE "update"

\* "select" if action in ["get", "list"] else "insert" if action == "create"
\* else "update"
comedian_operation(action) ==
  IF action \in {"get", "list"} THEN "select"
  ELSE IF action = "create" THEN "insert"
  ELSE "update"

\* {"id": comedian_id} if comedian_id else None
comedian_filters(comedian_id) ==
  IF bool_str(comedian_id) THEN [id |-> comedian_id] ELSE None

supabase_comedian_operations(action, comedian_data, comedian_id) ==
  LET inner ==
        supabase_query("comedians", comedian_operation(action),
                       comedian_filters(comedian_id), comedian_data)
  IN  Outcome(inner.ret,
              <<Entered("supabase_comedian_operations")>> \o inner.trace)

github_deployment_tracking(repo, action, deployment_data) ==
  IF ~TOOL_CONFIGS["github"].enabled
  THEN Outcome([error |-> "GitHub tool not enabled - check GITHUB_TOKEN"],
               <<Entered("github_deployment_tracking")>>)
  ELSE Outcome([repo |-> repo,
                action |-> action,
                status |-> "ready_for_implementation",
                message |-> <<"FastMCP ready to track ", repo, " deployments">>,
                timestamp |-> now],
               <<Entered("github_deployment_tracking"),
                 Logged("github_deployment_tracking",
                        <<"GitHub deployment tracking: ", action, " for ", repo>>)>>)

github_version_control(repo, operation, branch, file_data) ==
  LET inner ==
        github_deployment_tracking(repo, operation,
                                   [branch |-> branch, file_data |-> file_data])
  IN  Outcome(inner.ret, <<Entered("github_version_control")>> \o inner.trace)

\* server_fixed.py only.
github_operations(repo, action) ==
  IF ~TOOL_CONFIGS["github"].enabled
  THEN Outcome([error |-> "GitHub tool not enabled - check GITHUB_TOKEN"],
               <<Entered("github_operations")>>)
  ELSE Outcome([repo |-> repo,
                action |-> action,
                status |-> "ready_for_implementation",
                timestamp |-> now],
               <<Entered("github_operations"),
                 Logged("github_operations",
                        <<"GitHub operation: ", action, " for ", repo>>)>>)

\* Mutant of notion_project_logging: the guard reads the supabase entry.
notion_project_logging_supabase_guard(page_type, action, content) ==
  IF ~TOOL_CONFIGS["supabase"].enabled
  THEN Outcome([error |-> "Notion tool not enabled - check NOTION_TOKEN"],
               <<Entered("notion_project_logging")>>)
  ELSE Outcome([page_type |-> page_type,
                action |-> action,
                content |-> or_empty(content),
                status |-> "ready_for_implementation",
                message |->
                  <<"FastMCP ready to ", action, " ", page_type, " in Notion">>,
                timestamp |-> now],
               <<Entered("notion_project_logging"),
                 Logged("notion_project_logging",
                        <<"Notion project logging: ", action, " ", page_type>>)>>)

notion_project_logging(page_type, action, content) ==
  IF ~TOOL_CONFIGS["notion"].enabled
  THEN Outcome([error |-> "Notion tool not enabled - check NOTION_TOKEN"],
               <<Entered("notion_project_logging")>>)
  ELSE Outcome([page_type |-> page_type,
                action |-> action,
                content |-> or_empty(content),
                status |-> "ready_for_implementation",
                message |->
                  <<"FastMCP ready to ", action, " ", page_type, " in Notion">>,
                timestamp |-> now],
               <<Entered("notion_project_logging"),
                 Logged("notion_project_logging",
                        <<"Notion project logging: ", action, " ", page_type>>)>>)

notion_comedian_onboarding(comedian_data, stage) ==
  LET inner ==
        notion_project_logging("comedian_profile", "create",
                               [comedian_data |-> comedian_data,
                                onboarding_stage |-> stage])
  IN  Outcome(inner.ret,
              <<Entered("notion_comedian_onboarding")>> \o inner.trace)

metricool_promotion(campaign_type, content_data, schedule) ==
  IF ~TOOL_CONFIGS["metricool"].enabled
  THEN Outcome([error |-> "Metricool tool not enabled - check METRICOOL_API_KEY"],
               <<Entered("metricool_promotion")>>)
  ELSE Outcome([campaign_type |-> campaign_type,
                content_data |-> content_data,
                schedule |-> or_empty(schedule),
                status |-> "ready_for_implementation",
                message |->
                  <<"FastMCP ready to create ", campaign_type, " promotion">>,
                timestamp |-> now],
               <<Entered("metricool_promotion"),
                 Logged("metricool_promotion",
                        <<"Metricool promotion: ", campaign_type>>)>>)

\* server_fixed.py only: the browser tools have no enablement guard.
playwright_navigate(url, wait_for) ==
  Outcome([action |-> "navigate",
           url |-> url,
           wait_for |-> wait_for,
           status |-> "ready_for_implementation",
           message |-> <<"FastMCP ready to navigate to ", url>>,
           timestamp |-> now],
          <<Entered("playwright_navigate"),
            Logged("playwright_navigate", <<"Playwright navigation to ", url>>)>>)

playwright_test_element(selector, action, text) ==
  Outcome([action |-> "test_element",
           selector |-> selector,
           test_action |-> action,
           text |-> text,
           status |-> "ready_for_implementation",
           message |-> <<"FastMCP ready to ", action, " on ", selector>>,
           timestamp |-> now],
          <<Entered("playwright_test_element"),
            Logged("playwright_test_element",
                   <<"Playwright element test: ", action, " on ", selector>>)>>)

\* len(form_data) of the dict is the number of its keys.
playwright_form_test(form_data, submit_selector) ==
  Outcome([action |-> "form_test",
           form_data |-> form_data,
           submit_selector |-> submit_selector,
           status |-> "ready_for_implementation",
           message |->
             <<"FastMCP ready to test form with ",
               Cardinality(DOMAIN form_data), " fields">>,
           timestamp |-> now],
          <<Entered("playwright_form_test"),
            Logged("playwright_form_test",
                   <<"Playwright form test with ",
                     Cardinality(DOMAIN form_data), " fields">>)>>)

playwright_screenshot(selector, full_page) ==
  Outcome([action |-> "screenshot",
           selector |-> selector,
           full_page |-> full_page,
           status |-> "ready_for_implementation",
           message |-> <<"FastMCP ready to take screenshot">>,
           timestamp |-> now],
          <<Entered("playwright_screenshot"),
            Logged("playwright_screenshot",
                   <<"Playwright screenshot: selector=", selector,
                     ", full_page=", full_page>>)>>)

\* metrics is a list or None; None is replaced by the default list.
NoMetrics == <<NoneStr>>
playwright_performance_test(url, metrics) ==
  LET used ==
        IF metrics = NoMetrics
        THEN <<"load_time", "network_requests", "console_errors">>
        ELSE metrics
  IN  Outcome([action |-> "performance_test",
               url |-> url,
               metrics |-> used,
               status |-> "ready_for_implementation",
               message |-> <<"FastMCP ready to test performance of ", url>>,
               timestamp |-> now],
              <<Entered("playwright_performance_test"),
                Logged("playwright_performance_test",
                       <<"Playwright performance test for ", url>>)>>)

playwright_integration_test(test_scenario, steps) ==
  Outcome([action |-> "integration_test",
           test_scenario |-> test_scenario,
           steps |-> steps,
           total_steps |-> Len(steps),
           status |-> "ready_for_implementation",
           message |->
             <<"FastMCP ready to run ", test_scenario, " integration test">>,
           timestamp |-> now],
          <<Entered("playwright_integration_test"),
            Logged("playwright_integration_test",
                   <<"Playwright integration test: ", test_scenario, " with ",
                     Len(steps), " steps">>)>>)

\* ------------------------------------------------------------ the arguments

Tables == {"comedians", "events"}
Operations == {"select"}
Filters == {None, EmptyDict, [id |-> "c1"]}
Datas == {None, [name |-> "n"]}
ComedianActions == {"get", "list", "create", "update", "set_availability"}
ComedianIds == {NoneStr, "", "c1"}
Repos == {"standup-sydney-frontend"}
DeployActions == {"status", "create"}
FileOperations == {"get_file", "create_file"}
PageTypes == {"task", "booking_record"}
NotionActions == {"create", "get"}
Contents == {None, [title |-> "t"]}
Stages == {"initial", "confirmed"}
CampaignTypes == {"event_announcement", "comedian_spotlight"}
Schedules == {None, [at |-> "noon"]}
Urls == {"https://standup-sydney.vercel.app"}
Selectors == {NoneStr, "#submit"}
MetricLists == {NoMetrics, <<"load_time">>}
StepLists == {<<>>, <<[action |-> "click"]>>}
WorkflowComedianIds == {"c1", "c2"}
WorkflowEventIds == {"e1"}

\* --------------------------------------------------------- tool invocations

\* One invocation of a tool that returns within a single step: the caller's
\* slot receives the tool's name, its arguments, the value returned and the
\* trace of the handler.
Invocation(c, tool, args, outcome) ==
  /\ pc[c] = "idle"
  /\ call' = [call EXCEPT ![c] = [tool |-> tool, args |-> args]]
  /\ result' = [result EXCEPT ![c] = outcome.ret]
  /\ trace' = [trace EXCEPT ![c] = outcome.trace]
  /\ UNCHANGED <<variant, env, startup_enabled, now, pc, workflow_steps>>

HealthCheck(c) ==
  /\ Invocation(c, "health_check", EmptyDict, health_check)
  /\ health_log' =
       LET entry == health_check.ret.tools_enabled
       IN  IF Len(health_log) < MaxHealthLog
           THEN Append(health_log, entry)
           ELSE Append(Tail(health_log), entry)
  /\ UNCHANGED TOOL_CONFIGS

ListTools(c) ==
  /\ Invocation(c, "list_tools", EmptyDict, list_tools)
  /\ UNCHANGED <<TOOL_CONFIGS, health_log>>

ServerDiagnostics(c) ==
  /\ variant = "server_fixed"
  /\ Invocation(c, "server_diagnostics", EmptyDict, server_diagnostics)
  /\ UNCHANGED <<TOOL_CONFIGS, health_log>>

\* Mutant of SupabaseQuery: the handler re-derives the integration's `enabled`
\* from the stored url and key on every call.
SupabaseQuery_refresh(c) ==
  /\ \E table \in Tables, operation \in Operations, filters \in Filters,
        data \in Datas :
       Invocation(c, "supabase_query",
                  [table |-> table, operation |-> operation,
                   filters |-> filters, data |-> data],
                  supabase_query(table, operation, filters, data))
  /\ TOOL_CONFIGS' =
       [TOOL_CONFIGS EXCEPT !["supabase"].enabled =
          bool_str(TOOL_CONFIGS["supabase"].url)
            /\ bool_str(TOOL_CONFIGS["supabase"].key)]
  /\ UNCHANGED health_log

SupabaseQuery(c) ==
  /\ \E table \in Tables, operation \in Operations, filters \in Filters,
        data \in Datas :
       Invocation(c, "supabase_query",
                  [table |-> table, operation |-> operation,
                   filters |-> filters, data |-> data],
                  supabase_query(table, operation, filters, data))
  /\ UNCHANGED <<TOOL_CONFIGS, health_log>>

SupabaseComedianOperations(c) ==
  /\ variant = "server"
  /\ \E action \in ComedianActions, comedian_data \in Datas,
        comedian_id \in ComedianIds :
       Invocation(c, "supabase_comedian_operations",
                  [action |-> action, comedian_data |-> comedian_data,
                   comedian_id |-> comedian_id],
                  supabase_comedian_operations(action, comedian_data, comedian_id))
  /\ UNCHANGED <<TOOL_CONFIGS, health_log>>

GithubDeploymentTracking(c) ==
  /\ variant = "server"
  /\ \E repo \in Repos, action \in DeployActions, deployment_data \in Datas :
       Invocation(c, "github_deployment_tracking",
                  [repo |-> repo, action |-> action,
                   deployment_data |-> deployment_data],
                  github_deployment_tracking(repo, action, deployment_data))
  /\ UNCHANGED <<TOOL_CONFIGS, health_log>>

GithubVersionControl(c) ==
  /\ variant = "server"
  /\ \E repo \in Repos, operation \in FileOperations, file_data \in Datas :
       Invocation(c, "github_version_control",
                  [repo |-> repo, operation |-> operation, branch |-> "main",
                   file_data |-> file_data],
                  github_version_control(repo, operation, "main", file_data))
  /\ UNCHANGED <<TOOL_CONFIGS, health_log>>

GithubOperations(c) ==
  /\ variant = "server_fixed"
  /\ \E repo \in Repos, action \in DeployActions :
       Invocation(c, "github_operations", [repo |-> repo, action |-> action],
                  github_operations(repo, action))
  /\ UNCHANGED <<TOOL_CONFIGS, health_log>>

NotionProjectLogging(c) ==
  /\ variant = "server"
  /\ \E page_type \in PageTypes, action \in NotionActions, content \in Contents :
       Invocation(c, "notion_project_logging",
                  [page_type |-> page_type, action |-> action,
                   content |-> content],
                  notion_project_logging(page_type, action, content))
  /\ UNCHANGED <<TOOL_CONFIGS, health_log>>

NotionComedianOnboarding(c) ==
  /\ variant = "server"
  /\ \E comedian_data \in Datas \ {None}, stage \in Stages :
       Invocation(c, "notion_comedian_onboarding",
                  [comedian_data |-> comedian_data, stage |-> stage],
                  notion_comedian_onboarding(comedian_data, stage))
  /\ UNCHANGED <<TOOL_CONFIGS, health_log>>

MetricoolPromotion(c) ==
  /\ variant = "server"
  /\ \E campaign_type \in CampaignTypes, content_data \in Contents \ {None},
        schedule \in Schedules :
       Invocation(c, "metricool_promotion",
                  [campaign_type |-> campaign_type,
                   content_data |-> content_data, schedule |-> schedule],
                  metricool_promotion(campaign_type, content_data, schedule))
  /\ UNCHANGED <<TOOL_CONFIGS, health_log>>

PlaywrightNavigate(c) ==
  /\ variant = "server_fixed"
  /\ \E url \in Urls, wait_for \in {"load", "networkidle"} :
       Invocation(c, "playwright_navigate", [url |-> url, wait_for |-> wait_for],
                  playwright_navigate(url, wait_for))
  /\ UNCHANGED <<TOOL_CONFIGS, health_log>>

PlaywrightTestElement(c) ==
  /\ variant = "server_fixed"
  /\ \E selector \in Selectors \ {NoneStr}, action \in {"click", "type"},
        text \in {NoneStr, "hello"} :
       Invocation(c, "playwright_test_element",
                  [selector |-> selector, action |-> action, text |-> text],
                  playwright_test_element(selector, action, text))
  /\ UNCHANGED <<TOOL_CONFIGS, health_log>>

PlaywrightFormTest(c) ==
  /\ variant = "server_fixed"
  /\ \E form_data \in {EmptyDict, [name |-> "n"]}, submit_selector \in Selectors :
       Invocation(c, "playwright_form_test",
                  [form_data |-> form_data, submit_selector |-> submit_selector],
                  playwright_form_test(form_data, submit_selector))
  /\ UNCHANGED <<TOOL_CONFIGS, health_log>>

PlaywrightScreenshot(c) ==
  /\ variant = "server_fixed"
  /\ \E selector \in Selectors, full_page \in BOOLEAN :
       Invocation(c, "playwright_screenshot",
                  [selector |-> selector, full_page |-> full_page],
                  playwright_screenshot(selector, full_page))
  /\ UNCHANGED <<TOOL_CONFIGS, health_log>>

PlaywrightPerformanceTest(c) ==
  /\ variant = "server_fixed"
  /\ \E url \in Urls, metrics \in MetricLists :
       Invocation(c, "playwright_performance_test",
                  [url |-> url, metrics |-> metrics],
                  playwright_performance_test(url, metrics))
  /\ UNCHANGED <<TOOL_CONFIGS, health_log>>

PlaywrightIntegrationTest(c) ==
  /\ variant = "server_fixed"
  /\ \E test_scenario \in {"comedian_booking_flow"}, steps \in StepLists :
       Invocation(c, "playwright_integration_test",
                  [test_scenario |-> test_scenario, steps |-> steps],
                  playwright_integration_test(test_scenario, steps))
  /\ UNCHANGED <<TOOL_CONFIGS, health_log>>

\* ------------------------------------------------- comedian_booking_workflow

\* The workflow runs as four steps of its caller; other callers and the clock
\* may move between them. pc is the statement the caller executes next.

\* Entry: the arguments are bound and workflow_steps = [].
WorkflowStart(c) ==
  /\ variant = "server"
  /\ pc[c] = "idle"
  /\ \E comedian_id \in WorkflowComedianIds, event_id \in WorkflowEventIds,
        workflow_stage \in Stages :
       call' = [call EXCEPT ![c] =
                  [tool |-> "comedian_booking_workflow",
                   args |-> [comedian_id |-> comedian_id, event_id |-> event_id,
                             workflow_stage |-> workflow_stage]]]
  /\ result' = [result EXCEPT ![c] = NoResult]
  /\ trace' = [trace EXCEPT ![c] = <<Entered("comedian_booking_workflow")>>]
  /\ workflow_steps' = [workflow_steps EXCEPT ![c] = <<>>]
  /\ pc' = [pc EXCEPT ![c] = "step1"]
  /\ UNCHANGED <<variant, env, TOOL_CONFIGS, startup_enabled, now, health_log>>

\* Mutant of AppendStep: workflow_steps is one list shared by all the calls.
AppendStep_shared(c, name, outcome, next) ==
  /\ workflow_steps' =
       [d \in Callers |->
          Append(workflow_steps[d], [step |-> name, result |-> outcome.ret])]
  /\ trace' = [trace EXCEPT ![c] = @ \o outcome.trace]
  /\ pc' = [pc EXCEPT ![c] = next]
  /\ UNCHANGED <<variant, env, TOOL_CONFIGS, startup_enabled, now, call, result,
                 health_log>>

\* workflow_steps.append({"step": name, "result": outcome.ret}), then on to
\* the statement `next`.
AppendStep(c, name, outcome, next) ==
  /\ workflow_steps' =
       [workflow_steps EXCEPT ![c] = Append(@, [step |-> name, result |-> outcome.ret])]
  /\ trace' = [trace EXCEPT ![c] = @ \o outcome.trace]
  /\ pc' = [pc EXCEPT ![c] = next]
  /\ UNCHANGED <<variant, env, TOOL_CONFIGS, startup_enabled, now, call, result,
                 health_log>>

\* Step 1: Check comedian availability (Supabase).
WorkflowStep1(c) ==
  /\ pc[c] = "step1"
  /\ AppendStep(c, "availability_check",
                supabase_comedian_operations("get", None, call[c].args.comedian_id),
                "step2")

\* booking_log, the value of the call of step 2.
booking_log(c) ==
  notion_project_logging("booking_record", "create",
                         [comedian_id |-> call[c].args.comedian_id,
                          event_id |-> call[c].args.event_id,
                          stage |-> call[c].args.workflow_stage])

\* Mutant of WorkflowStep2: a failed logging step ends the workflow.
WorkflowStep2_abort(c) ==
  /\ pc[c] = "step2"
  /\ AppendStep(c, "notion_logging", booking_log(c),
                IF "error" \in DOMAIN booking_log(c).ret THEN "return" ELSE "step3")

\* Mutant of WorkflowStep2: the record is inserted at the head of the list.
WorkflowStep2_front(c) ==
  /\ pc[c] = "step2"
  /\ workflow_steps' =
       [workflow_steps EXCEPT ![c] =
          <<[step |-> "notion_logging", result |-> booking_log(c).ret]>> \o @]
  /\ trace' = [trace EXCEPT ![c] = @ \o booking_log(c).trace]
  /\ pc' = [pc EXCEPT ![c] = "step3"]
  /\ UNCHANGED <<variant, env, TOOL_CONFIGS, startup_enabled, now, call, result,
                 health_log>>

\* Mutant of WorkflowStep2: a failed logging call is made a second time.
WorkflowStep2_retry(c) ==
  /\ pc[c] = "step2"
  /\ AppendStep(c, "notion_logging",
                IF "error" \in DOMAIN booking_log(c).ret
                THEN Outcome(booking_log(c).ret,
                             booking_log(c).trace \o booking_log(c).trace)
                ELSE booking_log(c),
                "step3")

\* Step 2: Log booking in Notion.
WorkflowStep2(c) ==
  /\ pc[c] = "step2"
  /\ AppendStep(c, "notion_logging", booking_log(c), "step3")

\* Step 3: Create promotion campaign (Metricool).
WorkflowStep3(c) ==
  /\ pc[c] = "step3"
  /\ AppendStep(c, "promotion_setup",
                metricool_promotion("comedian_spotlight",
                                    [comedian_id |-> call[c].args.comedian_id,
                                     event_id |-> call[c].args.event_id],
                                    None),
                "return")

\* The report the workflow returns.
WorkflowReport(c) ==
  [workflow |-> "comedian_booking",
   comedian_id |-> call[c].args.comedian_id,
   event_id |-> call[c].args.event_id,
   stage |-> call[c].args.workflow_stage,
   steps |-> workflow_steps[c],
   status |-> "workflow_executed",
   timestamp |-> now]

WorkflowReturn(c) ==
  /\ pc[c] = "return"
  /\ result' = [result EXCEPT ![c] = WorkflowReport(c)]
  /\ workflow_steps' = [workflow_steps EXCEPT ![c] = <<>>]
  /\ pc' = [pc EXCEPT ![c] = "idle"]
  /\ UNCHANGED <<variant, env, TOOL_CONFIGS, startup_enabled, now, call, trace,
                 health_log>>
\* The clock advances between any two steps.
Tick ==
  /\ now < MaxTime
  /\ now' = now + 1
  /\ UNCHANGED <<variant, env, TOOL_CONFIGS, startup_enabled, pc, call, result,
                 trace, workflow_steps, health_log>>

\* The callers of the sequential specification: one request at a time.
Sequential == {"a"}

Next ==
  \/ Tick
  \/ \E c \in Sequential :
       \/ HealthCheck(c)
       \/ ListTools(c)
       \/ ServerDiagnostics(c)
       \/ SupabaseQuery(c)
       \/ SupabaseComedianOperations(c)
       \/ GithubDeploymentTracking(c)
       \/ GithubVersionControl(c)
       \/ GithubOperations(c)
       \/ NotionProjectLogging(c)
       \/ NotionComedianOnboarding(c)
       \/ MetricoolPromotion(c)
       \/ PlaywrightNavigate(c)
       \/ PlaywrightTestElement(c)
       \/ PlaywrightFormTest(c)
       \/ PlaywrightScreenshot(c)
       \/ PlaywrightPerformanceTest(c)
       \/ PlaywrightIntegrationTest(c)
       \/ WorkflowStart(c)
       \/ WorkflowStep1(c)
       \/ WorkflowStep2(c)
       \/ WorkflowStep3(c)
       \/ WorkflowReturn(c)

Spec == Init /\ [][Next]_vars

\* Concurrent requests: the callers' workflow calls and primitive tool calls
\* interleave step by step. server.py, each of the three integrations of the
\* workflow enabled or not.
ConcurrentEnvironments ==
  {e \in Environments :
     /\ e["SUPABASE_URL"] \in {NoneStr, "v"}
     /\ e["SUPABASE_ANON_KEY"] = "v"
     /\ e["GITHUB_TOKEN"] = "v"
     /\ e["PORT"] = NoneStr
     /\ e["HOST"] = NoneStr}

InitConc ==
  /\ Init
  /\ variant = "server"
  /\ env \in ConcurrentEnvironments

NextConc ==
  \/ Tick
  \/ \E c \in Callers :
       \/ ListTools(c)
       \/ NotionProjectLogging(c)
       \/ MetricoolPromotion(c)
       \/ WorkflowStart(c)
       \/ WorkflowStep1(c)
       \/ WorkflowStep2(c)
       \/ WorkflowStep3(c)
       \/ WorkflowReturn(c)

SpecConc == InitConc /\ [][NextConc]_vars

\* ------------------------------------------------------------------ claims

\* The caller's last invocation was the booking workflow and it has returned.
WorkflowDone(c) ==
  /\ pc[c] = "idle"
  /\ call[c].tool = "comedian_booking_workflow"

\* The invocation of `tool` by c has returned.
Returned(c, tool) == pc[c] = "idle" /\ call[c].tool = tool

\* A result that reports a failure or a disabled backend.
IsErrorResult(r) == "error" \in DOMAIN r

\* The functions entered and the log lines written, out of a trace.
EntriesOf(tr, fn) == {i \in 1..Len(tr) : tr[i] = Entered(fn)}
LogLines(tr) == {i \in 1..Len(tr) : tr[i].ev = "log"}

\* C1: the report of the booking workflow has exactly 3 entries in `steps`,
\* whatever integrations are enabled and whatever the steps returned; while the
\* workflow runs, every statement reached has appended its record (none is
\* skipped).
C1_ThreeSteps ==
  \A c \in Callers :
    /\ WorkflowDone(c) => Len(result[c].steps) = 3
    /\ pc[c] = "step1" => Len(workflow_steps[c]) = 0
    /\ pc[c] = "step2" => Len(workflow_steps[c]) = 1
    /\ pc[c] = "step3" => Len(workflow_steps[c]) = 2
    /\ pc[c] = "return" => Len(workflow_steps[c]) = 3

\* C1 witness: a returned report whose first two steps reported a disabled
\* backend and which still has its three records.
C1_Witness ==
  /\ WorkflowDone("a")
  /\ Len(result["a"].steps) = 3
  /\ IsErrorResult(result["a"].steps[1].result)
  /\ IsErrorResult(result["a"].steps[2].result)
  /\ ~IsErrorResult(result["a"].steps[3].result)

\* C2 (as claimed): the report's overall status is "ok" exactly when every
\* step succeeded, and "partial_failure" when some step failed or reported a
\* disabled backend.
C2_OverallStatus ==
  \A c \in Callers :
    WorkflowDone(c) =>
      LET steps == result[c].steps
          all_ok == \A i \in 1..Len(steps) : ~IsErrorResult(steps[i].result)
      IN  /\ (result[c].status = "ok") <=> all_ok
          /\ ~all_ok => result[c].status = "partial_failure"

\* The integration each guarded tool requires.
GuardedTools ==
  {"supabase_query", "supabase_comedian_operations", "github_deployment_tracking",
   "github_version_control", "notion_project_logging",
   "notion_comedian_onboarding", "metricool_promotion", "github_operations"}

RequiredIntegration(tool) ==
  CASE tool \in {"supabase_query", "supabase_comedian_operations"} -> "supabase"
    [] tool \in {"github_deployment_tracking", "github_version_control",
                 "github_operations"} -> "github"
    [] tool \in {"notion_project_logging", "notion_comedian_onboarding"} -> "notion"
    [] tool = "metricool_promotion" -> "metricool"

\* A guarded tool was invoked while its integration is disabled.
DisabledInvocation(c) ==
  /\ pc[c] = "idle"
  /\ call[c].tool \in GuardedTools
  /\ ~TOOL_CONFIGS[RequiredIntegration(call[c].tool)].enabled

\* C3 (as claimed): a guarded tool invoked while its integration is disabled
\* returns status = backend_disabled with an error detail, and the code after
\* the enablement guard (its log line) is never reached.
C3_DisabledResult ==
  \A c \in Callers :
    DisabledInvocation(c) =>
      /\ "status" \in DOMAIN result[c]
      /\ result[c].status = "backend_disabled"
      /\ \E k \in DOMAIN result[c] : k \in {"error", "error_detail"}
      /\ LogLines(trace[c]) = {}

\* The secrets and endpoints each integration requires.
RequiredSecrets(name) ==
  CASE name = "supabase" -> {"SUPABASE_URL", "SUPABASE_ANON_KEY"}
    [] name = "github" -> {"GITHUB_TOKEN"}
    [] name = "notion" -> {"NOTION_TOKEN"}
    [] name = "metricool" -> {"METRICOOL_API_KEY"}
    [] OTHER -> {}

AllSecretsPresent(name) ==
  \A key \in RequiredSecrets(name) : env[key] \notin {NoneStr, ""}

\* C4 (as claimed): `enabled` of every integration is true exactly when all
\* of its required secrets are non-empty; with SUPABASE_URL or
\* SUPABASE_ANON_KEY absent, supabase_query returns the disabled result.
C4_EnabledIffAllSecrets ==
  /\ \A name \in DOMAIN TOOL_CONFIGS :
       TOOL_CONFIGS[name].enabled <=> AllSecretsPresent(name)
  /\ \A c \in Callers :
       (Returned(c, "supabase_query") /\ ~AllSecretsPresent("supabase"))
         => IsErrorResult(result[c])

\* C5 (as claimed): in list_tools, `configured` of an entry is true when all
\* the secrets its integration requires are present and false otherwise;
\* entries that require no secrets report true.
C5_Configured ==
  \A c \in Callers :
    Returned(c, "list_tools") =>
      \A name \in DOMAIN result[c].tools :
        result[c].tools[name].configured <=> AllSecretsPresent(name)
\* The results an invocation handed back: the value returned and, for a
\* workflow report, the result of each of its steps.
ResultsOf(c) ==
  {result[c]} \cup
    (IF call[c].tool = "comedian_booking_workflow"
     THEN {result[c].steps[i].result : i \in 1..Len(result[c].steps)}
     ELSE {})

\* C6 (as claimed): every tool invocation, successful or not, returns a
\* mapping with at least a `status` and a `timestamp` field, and so does every
\* step result inside a workflow report.
C6_StatusAndTimestamp ==
  \A c \in Callers :
    (pc[c] = "idle" /\ call[c] # NoCall) =>
      \A r \in ResultsOf(c) : {"status", "timestamp"} \subseteq DOMAIN r

\* The step names of a list of step records.
StepNames(steps) == [i \in 1..Len(steps) |-> steps[i].step]

\* The position of the first entry of fn in a trace (0 when it never entered).
FirstEntry(tr, fn) ==
  IF EntriesOf(tr, fn) = {} THEN 0
  ELSE CHOOSE i \in EntriesOf(tr, fn) : \A j \in EntriesOf(tr, fn) : i <= j

DeclaredNames == <<"availability_check", "notion_logging", "promotion_setup">>

\* C7 (as claimed): the workflow's step records are named availability_check,
\* logging, promotion_setup, in this order.
C7_StepNamesAsClaimed ==
  \A c \in Callers :
    WorkflowDone(c) =>
      StepNames(result[c].steps) =
        <<"availability_check", "logging", "promotion_setup">>

\* C7 (amended): the steps run one after the other in declaration order and
\* the records are named availability_check, notion_logging, promotion_setup,
\* in this order, whatever the steps returned: at every point of the workflow
\* the records so far are a prefix of the declared names, and the three tools
\* were entered in the declared order.
C7_StepNames ==
  \A c \in Callers :
    /\ WorkflowDone(c) =>
         /\ StepNames(result[c].steps) = DeclaredNames
         /\ 0 < FirstEntry(trace[c], "supabase_comedian_operations")
         /\ FirstEntry(trace[c], "supabase_comedian_operations")
              < FirstEntry(trace[c], "notion_project_logging")
         /\ FirstEntry(trace[c], "notion_project_logging")
              < FirstEntry(trace[c], "metricool_promotion")
    /\ pc[c] \in {"step1", "step2", "step3", "return"} =>
         /\ Len(workflow_steps[c]) <= 3
         /\ StepNames(workflow_steps[c]) =
              SubSeq(DeclaredNames, 1, Len(workflow_steps[c]))

\* C7 witness: a returned report whose first step reported a disabled
\* backend and whose later steps succeeded, the records in declared order.
C7_Witness ==
  /\ WorkflowDone("a")
  /\ StepNames(result["a"].steps) = DeclaredNames
  /\ IsErrorResult(result["a"].steps[1].result)
  /\ ~IsErrorResult(result["a"].steps[2].result)
  /\ ~IsErrorResult(result["a"].steps[3].result)

\* C8: whatever tools have been invoked, every integration's `enabled` is
\* the value built at startup, and the health_check calls made so far reported
\* identical tools_enabled.
C8_EnabledUnchanged ==
  /\ \A name \in DOMAIN TOOL_CONFIGS :
       TOOL_CONFIGS[name].enabled = startup_enabled[name]
  /\ DOMAIN TOOL_CONFIGS = DOMAIN startup_enabled
  /\ \A i, j \in 1..Len(health_log) : health_log[i] = health_log[j]

\* C8 witness: two health_check calls are on record, a guarded tool was
\* invoked since, and the second health_check answered after the clock moved.
C8_Witness ==
  /\ Len(health_log) = 2
  /\ Returned("a", "supabase_query")
  /\ ~IsErrorResult(result["a"])
  /\ now > 0

\* C9: in one booking workflow call each of the three underlying tools is
\* entered exactly once (no retry), the guarded functions they delegate to
\* included, and the promotion tool is entered after the logging tool also
\* when the logging step reported a failure.
C9_EachToolOnce ==
  \A c \in Callers :
    WorkflowDone(c) =>
      /\ Cardinality(EntriesOf(trace[c], "supabase_comedian_operations")) = 1
      /\ Cardinality(EntriesOf(trace[c], "supabase_query")) = 1
      /\ Cardinality(EntriesOf(trace[c], "notion_project_logging")) = 1
      /\ Cardinality(EntriesOf(trace[c], "metricool_promotion")) = 1
      /\ FirstEntry(trace[c], "notion_project_logging")
           < FirstEntry(trace[c], "metricool_promotion")

\* C9 witness: the logging step reported a disabled backend and the promotion
\* tool was entered afterwards and wrote its log line.
C9_Witness ==
  /\ WorkflowDone("a")
  /\ IsErrorResult(result["a"].steps[2].result)
  /\ FirstEntry(trace["a"], "metricool_promotion")
       > FirstEntry(trace["a"], "notion_project_logging")
  /\ \E i \in LogLines(trace["a"]) : trace["a"][i].fn = "metricool_promotion"

\* The operation the claim assigns to an action.
ClaimedOperation(action) ==
  CASE action = "get" -> "select"
    [] action = "list" -> "select"
    [] action = "create" -> "insert"
    [] OTHER -> "update"

\* A step in which caller c's invocation of `tool` returns.
Returns(c, tool) ==
  /\ pc'[c] = "idle"
  /\ call'[c].tool = tool
  /\ (call'[c] # call[c] \/ result'[c] # result[c])

\* C10 (as claimed): supabase_comedian_operations returns what supabase_query
\* returns on table comedians with the action's operation and the data, the
\* filter being {id: comedian_id} iff a comedian id is given (is not None).
C10_WrapperAsClaimed ==
  [][\A c \in Callers :
       Returns(c, "supabase_comedian_operations") =>
         result'[c] =
           supabase_query("comedians",
                          ClaimedOperation(call'[c].args.action),
                          IF call'[c].args.comedian_id # NoneStr
                          THEN [id |-> call'[c].args.comedian_id]
                          ELSE None,
                          call'[c].args.comedian_data).ret]_vars

\* C10 (amended): as claimed, the filter being {id: comedian_id} iff the
\* comedian id is a non-empty string (None and "" both give no filter); the
\* wrapper returns the disabled result exactly when supabase_query does.
C10_Wrapper ==
  [][\A c \in Callers :
       Returns(c, "supabase_comedian_operations") =>
         /\ result'[c] =
              supabase_query("comedians",
                             ClaimedOperation(call'[c].args.action),
                             IF call'[c].args.comedian_id \notin {NoneStr, ""}
                             THEN [id |-> call'[c].args.comedian_id]
                             ELSE None,
                             call'[c].args.comedian_data).ret
         /\ IsErrorResult(result'[c]) <=>
              IsErrorResult(supabase_query("comedians", "select", None, None).ret)]_vars

\* C10 witness: the wrapper returned for action set_availability with an id
\* and data: an update with the id as filter.
C10_Witness ==
  /\ Returned("a", "supabase_comedian_operations")
  /\ call["a"].args.action = "set_availability"
  /\ call["a"].args.comedian_id = "c1"
  /\ ~IsErrorResult(result["a"])
  /\ result["a"].operation = "update"
  /\ result["a"].filters = [id |-> "c1"]
  /\ result["a"].data = [name |-> "n"]

\* The elements of a list.
Range(seq) == {seq[i] : i \in 1..Len(seq)}

\* The integrations that need no secret, and the browser-automation tools.
PureLocal == {BrowserName(variant), "filesystem"}

BrowserTools ==
  {"playwright_navigate", "playwright_test_element", "playwright_form_test",
   "playwright_screenshot", "playwright_performance_test",
   "playwright_integration_test"}

\* C11: whatever the secrets, the browser (playwright) and filesystem
\* integrations are enabled, health_check lists both in tools_enabled, and no
\* browser-automation tool returns a disabled result.
C11_PureLocalEnabled ==
  /\ \A name \in PureLocal :
       name \in DOMAIN TOOL_CONFIGS /\ TOOL_CONFIGS[name].enabled
  /\ \A c \in Callers :
       /\ Returned(c, "health_check") =>
            PureLocal \subseteq Range(result[c].tools_enabled)
       /\ (pc[c] = "idle" /\ call[c].tool \in BrowserTools) =>
            /\ ~IsErrorResult(result[c])
            /\ result[c].status = "ready_for_implementation"

\* C11 witness: with no secret set at all, health_check answered with exactly
\* the two pure-local integrations.
C11_Witness ==
  /\ \A key \in EnvKeys : env[key] = NoneStr
  /\ Returned("a", "health_check")
  /\ Range(result["a"].tools_enabled) = PureLocal
  /\ result["a"].tools_count = 2

\* The record of step k carries the ids and stage of caller c's own call, when
\* it carries any (a disabled step carries only the error).
OwnRecord(c, k, rec) ==
  LET args == call[c].args
  IN  /\ rec.step = DeclaredNames[k]
      /\ ~IsErrorResult(rec.result) =>
           CASE k = 1 -> rec.result.filters = [id |-> args.comedian_id]
             [] k = 2 -> rec.result.content =
                           [comedian_id |-> args.comedian_id,
                            event_id |-> args.event_id,
                            stage |-> args.workflow_stage]
             [] k = 3 -> rec.result.content_data =
                           [comedian_id |-> args.comedian_id,
                            event_id |-> args.event_id]

\* The number of records the workflow has appended when at statement p.
RecordsAt(p) ==
  CASE p = "step1" -> 0 [] p = "step2" -> 1 [] p = "step3" -> 2
    [] p = "return" -> 3 [] OTHER -> 0

\* C12: under any interleaving of two booking workflow calls and primitive
\* tool calls, each call's list and report hold its own step records only, in
\* declared order, with its own comedian/event ids and stage: none is lost and
\* none of the other call appears; the shared TOOL_CONFIGS is not modified.
C12_Isolation ==
  /\ TOOL_CONFIGS = BuildToolConfigs(variant, env)
  /\ \A c \in Callers :
       /\ Len(workflow_steps[c]) = RecordsAt(pc[c])
       /\ \A k \in 1..Len(workflow_steps[c]) : OwnRecord(c, k, workflow_steps[c][k])
       /\ WorkflowDone(c) =>
            /\ result[c].comedian_id = call[c].args.comedian_id
            /\ result[c].event_id = call[c].args.event_id
            /\ result[c].stage = call[c].args.workflow_stage
            /\ Len(result[c].steps) = 3
            /\ \A k \in 1..3 : OwnRecord(c, k, result[c].steps[k])

\* C12 witness: two returned reports for different comedians and stages whose
\* calls overlapped: each made its first step before the clock moved and its
\* last step after.
C12_Witness ==
  /\ WorkflowDone("a") /\ WorkflowDone("b")
  /\ call["a"].args.comedian_id = "c1" /\ call["b"].args.comedian_id = "c2"
  /\ call["a"].args.workflow_stage # call["b"].args.workflow_stage
  /\ \A c \in Callers :
       /\ \A k \in 1..3 : ~IsErrorResult(result[c].steps[k].result)
       /\ result[c].steps[1].result.timestamp = 0
       /\ result[c].steps[3].result.timestamp = 1

\* C13: health_check's tools_count is the size of its tools_enabled list;
\* list_tools' enabled_tools is that same number, its total_tools the number
\* of entries in `tools`, and the names it reports enabled are the set
\* health_check lists, both in this configuration and in the last answer
\* health_check actually gave.
C13_CountsAgree ==
  \A c \in Callers :
    /\ Returned(c, "health_check") =>
         /\ result[c].tools_count = Len(result[c].tools_enabled)
         /\ result[c].tools_count = Cardinality(Range(result[c].tools_enabled))
    /\ Returned(c, "list_tools") =>
         LET listed == {name \in DOMAIN result[c].tools :
                          result[c].tools[name].enabled}
         IN  /\ result[c].total_tools = Cardinality(DOMAIN result[c].tools)
             /\ result[c].enabled_tools = health_check.ret.tools_count
             /\ result[c].enabled_tools = Cardinality(listed)
             /\ listed = Range(health_check.ret.tools_enabled)
             /\ health_log # <<>> =>
                  /\ listed = Range(health_log[Len(health_log)])
                  /\ result[c].enabled_tools = Len(health_log[Len(health_log)])

\* C13 witness: list_tools answered after a health_check, with three of the
\* six integrations enabled.
C13_Witness ==
  /\ Returned("a", "list_tools")
  /\ health_log # <<>>
  /\ result["a"].total_tools = 6
  /\ result["a"].enabled_tools = 3
  /\ Len(health_log[1]) = 3

\* The integration behind each step of the booking workflow.
StepIntegration == <<"supabase", "notion", "metricool">>

\* C14: in a booking workflow report, step k carries a disabled/error result
\* if and only if its own integration is disabled (1: supabase, 2: notion,
\* 3: metricool), whatever the other steps returned.
C14_StepOwnIntegration ==
  \A c \in Callers :
    /\ WorkflowDone(c) =>
         \A k \in 1..Len(result[c].steps) :
           IsErrorResult(result[c].steps[k].result)
             <=> ~TOOL_CONFIGS[StepIntegration[k]].enabled
    /\ \A k \in 1..Len(workflow_steps[c]) :
         IsErrorResult(workflow_steps[c][k].result)
           <=> ~TOOL_CONFIGS[StepIntegration[k]].enabled

\* C14 witness: supabase and metricool disabled, notion enabled: steps 1 and
\* 3 carry the error and step 2, between them, succeeded.
C14_Witness ==
  /\ WorkflowDone("a")
  /\ ~TOOL_CONFIGS["supabase"].enabled
  /\ TOOL_CONFIGS["notion"].enabled
  /\ ~TOOL_CONFIGS["metricool"].enabled
  /\ IsErrorResult(result["a"].steps[1].result)
  /\ result["a"].steps[2].result.status = "ready_for_implementation"
  /\ IsErrorResult(result["a"].steps[3].result)
====
